---- MODULE Spec2Model ----
(***************************************************************************)
(* Session and credential subsystem of machi-quest.                        *)
(*                                                                         *)
(*   Spec        the browser API client: the axios instance, its request   *)
(*               and response interceptors and the in-memory access token  *)
(*   SpecIssuer  the Token Issuer and Session Store (rotation families)    *)
(*   SpecVerify  the Token Issuer's issue and verify of access tokens       *)
(*   SpecOAuth   the OAuth Exchange (anti-forgery state, code exchange,    *)
(*               account resolution)                                       *)
(*   SpecSess    the API client against a server that rotates the refresh  *)
(*               token on every use                                        *)
(*   SpecPet     PetContext under logins and logouts of several users      *)
(*   SpecAuth    AuthContext (session restore, login, logout), the OAuth   *)
(*               callback page and the protected pages, on top of the      *)
(*               API client                                                *)
(***************************************************************************)
EXTENDS Naturals, Integers, Sequences, FiniteSets, TLC

(* ------------------------------ bounds --------------------------------- *)
NumReq == 2          \* request slots of the API client
MaxTok == 3          \* access tokens the server hands out in one behaviour
MaxFam == 2          \* session families (rotation families) ever started
MaxRaw == 3          \* raw refresh tokens ever generated
MaxCalls == 3        \* rotate calls recorded in one behaviour
MaxTime == 2         \* ticks of the server clock
MaxMint == 1         \* access tokens minted in one behaviour
NumAcct == 1         \* accounts that start sessions
NumFlow == 2         \* OAuth callbacks handled in one behaviour
MaxState == 2        \* anti-forgery state values ever generated
NumSubj == 1         \* provider-side subject ids (also e-mail addresses)
MaxAcct == 1         \* accounts ever created
NumUsers == 2        \* users that log in on one browser
MaxPets == 1         \* pets a user owns
MaxLoads == 2        \* petApi.getAll() calls in flight at one time
MaxMounts == 2       \* PhaserGame components mounted over a run
MaxEmits == 2        \* 'gameAction' events emitted over a run
MaxRetries == 1      \* setTimeout(initGame, 100) firings per component

(* ----------------------------- constants ------------------------------- *)
Null == 0            \* accessToken: string | null
Unauthorized == 401  \* error.response?.status === 401
Unprocessable == 422 \* a failing status other than 401
SecretKey == 5       \* the signing key (SECRET_KEY)
AccessTTL == 2       \* access-token lifetime in ticks (15 minutes)
SessionTTL == 2      \* refresh-token lifetime in ticks
StateTTL == 1        \* lifetime of an anti-forgery state value in ticks

Req == 1 .. NumReq
Kinds == {"api", "login", "refreshToken"}
Locations == {"none", "app", "auth"}

VARIABLES
    accessToken,   \* module-level `let accessToken` of the axios module
    location,      \* "none": no window; "app": a page outside /auth; "auth"
    req,           \* one record per request issued through axiosInstance
    refreshCalls,  \* POST /auth/refresh calls made by the response interceptor
    nextTok,       \* next access token the server will hand out
    terminated     \* a refresh failure was handled and nobody re-authenticated

clientVars == <<accessToken, location, req, refreshCalls, nextTok, terminated>>

VARIABLES
    sessions,      \* Session Store: one record per rotation family
    now,           \* the server's clock
    nextRaw,       \* next value of the random refresh-token generator
    calls,         \* number of rotate calls so far
    lastRot,       \* the latest rotate call: token presented, family, answer
    succeeded,     \* raw tokens that rotate has answered Success for
    reused,        \* families that rotate has answered ReuseDetected for
    minted,        \* access tokens signed by issue so far
    verified       \* the first verify call: token, time, answer

issuerVars == <<sessions, now, nextRaw, calls, lastRot, succeeded, reused,
                minted, verified>>

VARIABLES
    issuedStates,  \* server-side anti-forgery states: value -> expiry, 0: none
    nextState,     \* next value of the random state generator
    flows,         \* one record per callback being handled
    accounts       \* Account records

oauthVars == <<issuedStates, nextState, flows, accounts>>

VARIABLES
    user,          \* AuthProvider's useState: User | null
    isLoading,     \* AuthProvider's useState: boolean
    tasks,         \* the async operations in progress, one record each
    view,          \* what the protected page rendered at the last commit
    pushedAuth,    \* a protected page's effect has called router.push('/auth')
    cookie,        \* the browser holds an httpOnly refresh cookie
    loggedIn,      \* login set user and nothing ended that since
    loggedOut      \* logout returned and no login/restore was started since

authVars == <<user, isLoading, tasks, view, pushedAuth, cookie, loggedIn,
              loggedOut>>

VARIABLES
    jar,           \* the raw refresh token in the browser's httpOnly cookie
    wire           \* per request: the cookie its refresh call carried, the answer

sessVars == <<jar, wire>>

VARIABLES
    pets,          \* PetProvider's useState: Pet[]
    currentPetId,  \* PetProvider's useState: string | null
    loads          \* loadPets calls awaiting petApi.getAll()

petVars == <<pets, currentPetId, loads>>

VARIABLES
    mounted,       \* the PhaserGame component on the page, Null when none
    mounts,        \* PhaserGame components mounted so far
    gameRef,       \* per component: gameRef.current
    initGame,      \* per component: where its initGame call stands
    retries,       \* per component: firings of setTimeout(initGame, 100)
    games,         \* Phaser.Game instances created and not destroyed
    handlers,      \* per game: copies of handleGameAction on 'gameAction'
    emitted,       \* 'gameAction' events emitted by a scene
    handled        \* calls of handleGameAction

gameVars == <<mounted, mounts, gameRef, initGame, retries, games, handlers,
              emitted, handled>>

vars == <<clientVars, issuerVars, oauthVars, authVars, sessVars, petVars,
          gameVars>>

otherThanClient == <<issuerVars, oauthVars, authVars, sessVars, petVars,
                     gameVars>>
otherThanIssuer == <<clientVars, oauthVars, authVars, sessVars, petVars,
                     gameVars>>
otherThanOAuth == <<clientVars, sessions, nextRaw, calls, lastRot, succeeded,
                    reused, minted, verified, authVars, sessVars, petVars,
                    gameVars>>
otherThanAuth == <<req, terminated, issuerVars, oauthVars, sessVars, petVars,
                   gameVars>>
otherThanSess == <<now, calls, lastRot, minted, verified, oauthVars, authVars,
                   petVars, gameVars>>
otherThanPet == <<clientVars, issuerVars, oauthVars, isLoading, tasks, view,
                  pushedAuth, cookie, loggedIn, loggedOut, sessVars, gameVars>>
otherThanGame == <<clientVars, issuerVars, oauthVars, authVars, sessVars,
                   petVars>>

(* ------------------------- the axios module ---------------------------- *)
IdleRequest ==
    [pc |-> "idle", kind |-> "api", retry |-> FALSE, skip |-> FALSE,
     auth |-> Null, sends |-> 0, refreshes |-> 0, refreshId |-> 0,
     newTok |-> Null, retryAuth |-> Null, outcome |-> "none"]

\* request interceptor: attach the in-memory token when there is one
AttachToken(hdr, token) == IF token # Null THEN token ELSE hdr

SkipAuthRefreshNever(kind) == FALSE

\* authApi.refreshToken is the only caller that passes skipAuthRefresh
SkipAuthRefresh(kind) == kind = "refreshToken"

ShouldRefreshNoRetryFlag(status, r) ==
    status = Unauthorized /\ ~r.skip

\* condition of the response interceptor's refresh branch
ShouldRefresh(status, r) ==
    status = Unauthorized /\ ~r.retry /\ ~r.skip

InitClient ==
    /\ accessToken = Null
    /\ location \in Locations
    /\ req = [r \in Req |-> IdleRequest]
    /\ refreshCalls = 0
    /\ nextTok = 1
    /\ terminated = FALSE

\* a caller issues a request through axiosInstance
Send(r, kind) ==
    /\ req[r].pc = "idle"
    /\ req' = [req EXCEPT ![r] =
                 [@ EXCEPT !.pc = "sent", !.kind = kind,
                           !.skip = SkipAuthRefresh(kind),
                           !.auth = AttachToken(Null, accessToken),
                           !.sends = 1]]
    /\ UNCHANGED <<accessToken, location, refreshCalls, nextTok, terminated>>
    /\ UNCHANGED otherThanClient

\* 2xx response: the response interceptor passes it through; authApi.login
\* and authApi.refreshToken then store data.access_token
RespondOk(r) ==
    /\ req[r].pc = "sent"
    /\ req' = [req EXCEPT ![r] = [@ EXCEPT !.pc = "done", !.outcome = "ok"]]
    /\ IF req[r].kind \in {"login", "refreshToken"}
       THEN /\ nextTok <= MaxTok
            /\ accessToken' = nextTok
            /\ nextTok' = nextTok + 1
            /\ terminated' = FALSE
       ELSE UNCHANGED <<accessToken, nextTok, terminated>>
    /\ UNCHANGED <<location, refreshCalls>>
    /\ UNCHANGED otherThanClient

\* error response: the response interceptor's error handler up to its await
RespondErr(r, status) ==
    /\ req[r].pc = "sent"
    /\ IF ShouldRefresh(status, req[r])
       THEN /\ req' = [req EXCEPT ![r] =
                        [@ EXCEPT !.pc = "refreshing", !.retry = TRUE,
                                  !.refreshes = @ + 1,
                                  !.refreshId = refreshCalls + 1]]
            /\ refreshCalls' = refreshCalls + 1
       ELSE /\ req' = [req EXCEPT ![r] =
                        [@ EXCEPT !.pc = "done",
                                  !.outcome = IF status = Unauthorized
                                              THEN "err401" ELSE "err422"]]
            /\ UNCHANGED refreshCalls
    /\ UNCHANGED <<accessToken, location, nextTok, terminated>>
    /\ UNCHANGED otherThanClient

\* the interceptor's refresh call succeeded: store the token, retry
RefreshOk(r) ==
    /\ req[r].pc = "refreshing"
    /\ nextTok <= MaxTok
    /\ accessToken' = nextTok
    /\ nextTok' = nextTok + 1
    /\ req' = [req EXCEPT ![r] =
                 [@ EXCEPT !.pc = "sent", !.newTok = nextTok,
                           !.auth = AttachToken(nextTok, accessToken'),
                           !.retryAuth = AttachToken(nextTok, accessToken'),
                           !.sends = @ + 1]]
    /\ UNCHANGED <<location, refreshCalls, terminated>>
    /\ UNCHANGED otherThanClient

\* the interceptor's refresh call failed: clear the token, redirect, reject
RefreshFail(r) ==
    /\ req[r].pc = "refreshing"
    /\ accessToken' = Null
    /\ location' = IF location = "app" THEN "auth" ELSE location
    /\ req' = [req EXCEPT ![r] =
                 [@ EXCEPT !.pc = "done", !.outcome = "refreshErr"]]
    /\ terminated' = TRUE
    /\ UNCHANGED <<refreshCalls, nextTok>>
    /\ UNCHANGED otherThanClient

NextClient ==
    \/ \E r \in Req, k \in Kinds : Send(r, k)
    \/ \E r \in Req : RespondOk(r)
    \/ \E r \in Req, s \in {Unauthorized, Unprocessable} : RespondErr(r, s)
    \/ \E r \in Req : RefreshOk(r)
    \/ \E r \in Req : RefreshFail(r)

(* ------------------- AuthContext and the pages ------------------------- *)
TaskIds == {"restore", "login", "logout", "callback", "api"}

\* the User object returned by GET /api/v1/users/me
UserData == 1

IdleTask ==
    [pc |-> "idle", rq |-> "none", retry |-> FALSE, skip |-> FALSE,
     sentAfter |-> FALSE, granted |-> FALSE, via |-> "none", error |-> "none", rt |-> "none",
     me |-> "none", called |-> FALSE, scheduled |-> FALSE,
     tokenBefore |-> Null, tokenAt |-> Null, userAt |-> Null]

\* isAuthenticated: !!user
IsAuthenticated(u) == u # Null

RenderWithoutAuthCheck(loading, u) ==
    IF loading THEN "spinner" ELSE "content"

\* what a protected page (Home, DashboardPage) returns
Render(loading, u) ==
    IF loading THEN "spinner"
    ELSE IF ~IsAuthenticated(u) \/ u = Null THEN "nothing"
    ELSE "content"

\* the protected page's effect: router.push('/auth')
RedirectEffect(loading, u) == ~loading /\ ~IsAuthenticated(u)

\* the server may hand out the same token string again once MaxTok
\* different ones are in use
Bump(n) == IF n < MaxTok THEN n + 1 ELSE n

\* what a handler leaves behind: token, user, isLoading, pathname, its task
Cur(id) ==
    [tok |-> accessToken, user |-> user, loading |-> isLoading,
     loc |-> location, cookie |-> cookie, task |-> tasks[id]]

\* a request is handed to axiosInstance; withCredentials sends the cookie,
\* and POST /auth/refresh can be granted only if there is one
SendReq(t, pc, skip) ==
    [t EXCEPT !.pc = pc, !.rq = "sent", !.retry = FALSE, !.skip = skip,
              !.sentAfter = loggedIn, !.granted = (pc = "rt" /\ cookie)]

\* refreshUser up to its first await
RefreshUserCall(e) ==
    LET t == [e.task EXCEPT !.called = TRUE]
    IN  IF e.tok = Null
        THEN [e EXCEPT !.task = SendReq(t, "rt", SkipAuthRefresh("refreshToken"))]
        ELSE [e EXCEPT !.task = SendReq(t, "me", SkipAuthRefresh("api"))]

\* the operation is over: remember the token and the user it leaves
Finished(e, pc) ==
    [e EXCEPT !.task = [@ EXCEPT !.pc = pc, !.rq = "none",
                                 !.tokenAt = e.tok, !.userAt = e.user]]

ReturnedStillLoading(id, e) ==
    CASE id = "restore" -> Finished(e, "done")
      [] id = "login" -> Finished([e EXCEPT !.loc = "app"], "resolved")
      [] id = "callback" ->
            Finished([e EXCEPT !.task = [@ EXCEPT !.scheduled = TRUE]],
                     "success")

\* refreshUser has returned (it never throws) to the caller that awaited it
Returned(id, e) ==
    CASE id = "restore" -> Finished([e EXCEPT !.loading = FALSE], "done")
      [] id = "login" -> Finished([e EXCEPT !.loc = "app"], "resolved")
      [] id = "callback" ->
            Finished([e EXCEPT !.task = [@ EXCEPT !.scheduled = TRUE]],
                     "success")

LoggedOutKeepingToken(e) ==
    Finished([e EXCEPT !.user = Null, !.loc = "auth"], "returned")

\* logout's finally block, then Home.handleLogout's router.push('/auth')
LoggedOut(e) ==
    Finished([e EXCEPT !.tok = Null, !.user = Null, !.loc = "auth"], "returned")

\* requests whose answer carries a new access token that authApi stores
StoresToken(t) == t.pc = "rt" \/ (t.pc = "post" /\ t.via # "logout")

\* the awaited request resolved
Resolved(id, e, fresh) ==
    CASE e.task.pc = "rt" ->
            [e EXCEPT !.tok = fresh,
                      !.task = SendReq([@ EXCEPT !.rt = "ok"], "me",
                                       SkipAuthRefresh("api"))]
      [] e.task.pc = "me" ->
            Returned(id, [e EXCEPT !.user = UserData,
                                   !.task = [@ EXCEPT !.me = "ok"]])
      [] e.task.pc = "post" /\ id = "login" ->
            RefreshUserCall([e EXCEPT !.tok = fresh, !.cookie = TRUE])
      [] e.task.pc = "post" /\ id = "logout" ->
            LoggedOut([e EXCEPT !.cookie = FALSE])
      [] e.task.pc = "get" -> Finished(e, "ok")

\* the awaited request rejected with error err
Rejected(id, e, err) ==
    CASE e.task.pc = "rt" ->
            Returned(id, [e EXCEPT !.user = Null,
                                   !.task = [@ EXCEPT !.rt = "failed"]])
      [] e.task.pc = "me" ->
            Returned(id, [e EXCEPT !.tok = Null, !.user = Null,
                                   !.task = [@ EXCEPT !.me = "failed"]])
      [] e.task.pc = "post" /\ id = "login" ->
            Finished([e EXCEPT !.task = [@ EXCEPT !.error = err]], "rejected")
      [] e.task.pc = "post" /\ id = "logout" ->
            LoggedOut([e EXCEPT !.task = [@ EXCEPT !.error = err]])
      [] e.task.pc = "get" ->
            Finished([e EXCEPT !.task = [@ EXCEPT !.error = err]], "failed")

\* React commits the new context value: a mounted protected page renders
\* and runs its effect
Commit(loc, loading, u) ==
    IF loc = "app"
    THEN /\ view' = Render(loading, u)
         /\ IF RedirectEffect(loading, u)
            THEN location' = "auth" /\ pushedAuth' = TRUE
            ELSE location' = loc /\ UNCHANGED pushedAuth
    ELSE /\ view' = "unmounted"
         /\ location' = loc
         /\ UNCHANGED pushedAuth

\* the handler's writes, then the commit; rej: a request made after the
\* login has failed in this step
Apply(id, e, rej) ==
    /\ accessToken' = e.tok
    /\ user' = e.user
    /\ isLoading' = e.loading
    /\ cookie' = e.cookie
    /\ tasks' = [tasks EXCEPT ![id] = e.task]
    /\ Commit(e.loc, e.loading, e.user)
    /\ loggedIn' =
          IF id = "login" /\ e.task.pc = "resolved" /\ e.user # Null THEN TRUE
          ELSE IF id = "logout" /\ e.task.pc = "returned" THEN FALSE
          ELSE IF rej THEN FALSE
          ELSE loggedIn
    /\ loggedOut' =
          IF id = "logout" /\ e.task.pc = "returned" THEN TRUE
          ELSE IF tasks[id].pc = "idle" /\ id \in {"restore", "login", "callback"}
               THEN FALSE
          ELSE loggedOut

InitAuth ==
    /\ user = Null
    /\ isLoading = TRUE
    /\ tasks = [id \in TaskIds |-> IdleTask]
    /\ view = "unmounted"
    /\ pushedAuth = FALSE
    /\ cookie = FALSE
    /\ loggedIn = FALSE
    /\ loggedOut = FALSE

\* AuthProvider's mount effect: initAuth
Mount ==
    /\ tasks["restore"].pc = "idle"
    /\ Apply("restore", RefreshUserCall([Cur("restore") EXCEPT !.loading = TRUE]),
             FALSE)
    /\ UNCHANGED <<refreshCalls, nextTok>>
    /\ UNCHANGED otherThanAuth

\* AuthPage.handleSubmit: login(email, password) or signup(...); the form
\* is on /auth, which is not the callback page
LoginStart(via) ==
    /\ tasks["login"].pc = "idle"
    /\ tasks["restore"].pc # "idle"
    /\ tasks["callback"].pc = "idle"
    /\ location = "auth"
    /\ Apply("login",
             [Cur("login") EXCEPT !.task =
                 SendReq([@ EXCEPT !.via = via, !.tokenBefore = accessToken],
                         "post", SkipAuthRefresh(via))],
             FALSE)
    /\ UNCHANGED <<refreshCalls, nextTok>>
    /\ UNCHANGED otherThanAuth

\* Home.handleLogout: the button is rendered for an authenticated user
LogoutStart ==
    /\ tasks["logout"].pc = "idle"
    /\ view = "content"
    /\ Apply("logout",
             [Cur("logout") EXCEPT !.task =
                 SendReq([@ EXCEPT !.via = "logout"], "post",
                         SkipAuthRefresh("logout"))],
             FALSE)
    /\ UNCHANGED <<refreshCalls, nextTok>>
    /\ UNCHANGED otherThanAuth

CallbackStartWithoutCheck(hasToken) ==
    /\ tasks["callback"].pc = "idle"
    /\ tasks["restore"].pc = "idle"
    /\ location = "auth"
    /\ LET e == [Cur("callback") EXCEPT
                    !.task = [@ EXCEPT !.tokenBefore = accessToken,
                                       !.via = IF hasToken THEN "token"
                                               ELSE "no-token"]]
       IN  /\ Apply("callback",
                    RefreshUserCall([e EXCEPT !.tok = IF hasToken THEN nextTok
                                                      ELSE Null,
                                              !.cookie = hasToken]),
                    FALSE)
           /\ nextTok' = IF hasToken THEN Bump(nextTok) ELSE nextTok
    /\ UNCHANGED refreshCalls
    /\ UNCHANGED otherThanAuth

\* AuthCallbackContent's effect: handleCallback, on the page load the
\* provider redirect ends in
CallbackStart(hasToken) ==
    /\ tasks["callback"].pc = "idle"
    /\ tasks["restore"].pc = "idle"
    /\ location = "auth"
    /\ LET e == [Cur("callback") EXCEPT
                    !.task = [@ EXCEPT !.tokenBefore = accessToken,
                                       !.via = IF hasToken THEN "token"
                                               ELSE "no-token"]]
       IN  IF hasToken
           THEN /\ Apply("callback",
                         RefreshUserCall([e EXCEPT !.tok = nextTok,
                                                   !.cookie = TRUE]),
                         FALSE)
                /\ nextTok' = Bump(nextTok)
           ELSE /\ Apply("callback",
                         Finished([e EXCEPT !.task =
                                     [@ EXCEPT !.error = "missing"]], "error"),
                         FALSE)
                /\ UNCHANGED nextTok
    /\ UNCHANGED refreshCalls
    /\ UNCHANGED otherThanAuth

\* PetProvider's effect: petApi.getAll() once isAuthenticated
ApiStart ==
    /\ tasks["api"].pc = "idle"
    /\ IsAuthenticated(user)
    /\ Apply("api",
             [Cur("api") EXCEPT !.task =
                 SendReq(@, "get", SkipAuthRefresh("api"))],
             FALSE)
    /\ UNCHANGED <<refreshCalls, nextTok>>
    /\ UNCHANGED otherThanAuth

\* 2xx response to a task's request, and the task's code up to its next await
TaskOk(id) ==
    /\ tasks[id].rq = "sent"
    /\ tasks[id].pc = "rt" => tasks[id].granted
    /\ Apply(id, Resolved(id, Cur(id), nextTok), FALSE)
    /\ nextTok' = IF StoresToken(tasks[id]) THEN Bump(nextTok) ELSE nextTok
    /\ UNCHANGED refreshCalls
    /\ UNCHANGED otherThanAuth

\* error response: the response interceptor, then (unless it refreshes) the
\* task's code up to its next await
TaskErr(id, status) ==
    /\ tasks[id].rq = "sent"
    /\ IF ShouldRefresh(status, tasks[id])
       THEN /\ Apply(id,
                     [Cur(id) EXCEPT !.task =
                         [@ EXCEPT !.rq = "refreshing", !.retry = TRUE,
                                   !.granted = cookie]],
                     FALSE)
            /\ refreshCalls' = refreshCalls + 1
       ELSE /\ Apply(id,
                     Rejected(id, Cur(id),
                              IF status = Unauthorized THEN "endpoint401"
                              ELSE "endpoint422"),
                     tasks[id].sentAfter)
            /\ UNCHANGED refreshCalls
    /\ UNCHANGED nextTok
    /\ UNCHANGED otherThanAuth

\* the interceptor's refresh call succeeded: store the token, retry
TaskRefreshOk(id) ==
    /\ tasks[id].rq = "refreshing"
    /\ tasks[id].granted
    /\ Apply(id,
             [Cur(id) EXCEPT !.tok = nextTok,
                             !.task = [@ EXCEPT !.rq = "sent"]],
             FALSE)
    /\ nextTok' = Bump(nextTok)
    /\ UNCHANGED refreshCalls
    /\ UNCHANGED otherThanAuth

\* the interceptor's refresh call failed: clear the token, redirect, reject
TaskRefreshFail(id) ==
    /\ tasks[id].rq = "refreshing"
    /\ Apply(id,
             Rejected(id,
                      [Cur(id) EXCEPT !.tok = Null,
                                      !.loc = IF location = "app" THEN "auth"
                                              ELSE location],
                      "refresh"),
             tasks[id].sentAfter)
    /\ UNCHANGED <<refreshCalls, nextTok>>
    /\ UNCHANGED otherThanAuth

NextAuth ==
    \/ Mount
    \/ \E via \in {"login", "signup"} : LoginStart(via)
    \/ LogoutStart
    \/ \E hasToken \in BOOLEAN : CallbackStart(hasToken)
    \/ ApiStart
    \/ \E id \in TaskIds : TaskOk(id)
    \/ \E id \in TaskIds, s \in {Unauthorized, Unprocessable} : TaskErr(id, s)
    \/ \E id \in TaskIds : TaskRefreshOk(id)
    \/ \E id \in TaskIds : TaskRefreshFail(id)

(* -------------------- Token Issuer and Session Store ------------------- *)
Families == 1 .. MaxFam
Accounts == 1 .. NumAcct

NoSession ==
    [exists |-> FALSE, version |-> 0, hash |-> 0, old |-> {}, account |-> 0,
     issuedAt |-> 0, expiresAt |-> 0, revoked |-> FALSE, reason |-> "none"]

\* one-way hash of a raw refresh token (injective on the tokens generated)
Hash(raw) == ((7 * raw) % 11) + 1

\* signature over the claim set {sub, sid, iat, exp} under a key
Sign(key, sub, sid, iat, exp) == (key + 2 * sub + 3 * sid + 5 * iat + 7 * exp) % 13

\* issue(accountId, sessionFamilyId): a signed, self-contained claim set
IssueToken(a, f, t) ==
    [sub |-> a, sid |-> f, iat |-> t, exp |-> t + AccessTTL,
     sig |-> Sign(SecretKey, a, f, t, t + AccessTTL)]

VerifyWithStore(tok, t, store) ==
    IF tok.sig # Sign(SecretKey, tok.sub, tok.sid, tok.iat, tok.exp)
    THEN "TokenMalformed"
    ELSE IF ~(tok.exp > t) THEN "TokenExpired"
    ELSE IF store[tok.sid].revoked THEN "TokenExpired"
    ELSE "Claims"

\* verify(accessToken): signature, then exp > now; the store is not consulted
Verify(tok, t, store) ==
    IF tok.sig # Sign(SecretKey, tok.sub, tok.sid, tok.iat, tok.exp)
    THEN "TokenMalformed"
    ELSE IF ~(tok.exp > t) THEN "TokenExpired"
    ELSE "Claims"

\* families whose current hash, or whose superseded hashes, contain h
CurrentOf(store, h) == {f \in Families : store[f].exists /\ store[f].hash = h}
SupersededOf(store, h) == {f \in Families : store[f].exists /\ h \in store[f].old}

FamilyOf(store, h) ==
    IF CurrentOf(store, h) # {} THEN CHOOSE f \in CurrentOf(store, h) : TRUE
    ELSE IF SupersededOf(store, h) # {}
         THEN CHOOSE f \in SupersededOf(store, h) : TRUE
         ELSE 0

RotateOutcomeIgnoringRevoked(store, h, t) ==
    IF CurrentOf(store, h) # {}
    THEN LET s == store[FamilyOf(store, h)]
         IN  IF ~(s.expiresAt > t) THEN "Expired" ELSE "Success"
    ELSE IF SupersededOf(store, h) # {} THEN "ReuseDetected"
    ELSE "NotFound"

\* the answer of rotate for a presented hash
RotateOutcome(store, h, t) ==
    IF CurrentOf(store, h) # {}
    THEN LET s == store[FamilyOf(store, h)]
         IN  IF s.revoked THEN "SessionRevoked"
             ELSE IF ~(s.expiresAt > t) THEN "Expired"
             ELSE "Success"
    ELSE IF SupersededOf(store, h) # {} THEN "ReuseDetected"
    ELSE "NotFound"

AdvancedKeepingHash(s, newHash) == [s EXCEPT !.version = @ + 1]

AdvancedWithoutVersion(s, newHash) ==
    [s EXCEPT !.hash = newHash, !.old = @ \cup {s.hash}]

\* successful rotation: advance the version, store the new hash
Advanced(s, newHash) ==
    [s EXCEPT !.version = @ + 1, !.hash = newHash, !.old = @ \cup {s.hash}]

MarkedRevokedNever(s, why) == s

\* mark a family revoked; a family that is already revoked keeps its reason
MarkedRevoked(s, why) ==
    IF s.revoked THEN s ELSE [s EXCEPT !.revoked = TRUE, !.reason = why]

NoCall == [tok |-> 0, fam |-> 0, res |-> "none", valid |-> FALSE, access |-> 0]

InitIssuer ==
    /\ sessions = [f \in Families |-> NoSession]
    /\ now = 0
    /\ nextRaw = 1
    /\ calls = 0
    /\ lastRot = NoCall
    /\ succeeded = {}
    /\ reused = {}
    /\ minted = {}
    /\ verified = {}

\* startSession(accountId): new family, version 0, only the hash is stored;
\* accounts are numbered in the order of their first session
StartSession(a) ==
    /\ nextRaw <= MaxRaw
    /\ \A b \in Accounts :
          b < a => \E g \in Families : sessions[g].exists /\ sessions[g].account = b
    /\ \E f \in Families :
          /\ ~sessions[f].exists
          /\ \A g \in Families : g < f => sessions[g].exists
          /\ sessions' = [sessions EXCEPT ![f] =
                [exists |-> TRUE, version |-> 0, hash |-> Hash(nextRaw),
                 old |-> {}, account |-> a, issuedAt |-> now,
                 expiresAt |-> now + SessionTTL, revoked |-> FALSE,
                 reason |-> "none"]]
    /\ nextRaw' = nextRaw + 1
    /\ UNCHANGED <<now, calls, lastRot, succeeded, reused, minted, verified>>
    /\ UNCHANGED otherThanIssuer

\* issue(accountId, sessionFamilyId): signing only
IssueAccess(a, f) ==
    /\ Cardinality(minted) < MaxMint
    /\ minted' = minted \cup {IssueToken(a, f, now)}
    /\ UNCHANGED <<sessions, now, nextRaw, calls, lastRot, succeeded, reused,
                   verified>>
    /\ UNCHANGED otherThanIssuer

\* rotate(rawRefreshToken): one atomic transaction on the Session Store
Rotate(raw) ==
    /\ calls < MaxCalls
    /\ calls' = calls + 1
    /\ LET h == Hash(raw)
           f == FamilyOf(sessions, h)
           res == RotateOutcome(sessions, h, now)
       IN  /\ lastRot' =
                  [tok |-> raw, fam |-> f, res |-> res,
                   valid |-> /\ f # 0
                             /\ sessions[f].hash = h
                             /\ ~sessions[f].revoked
                             /\ now < sessions[f].expiresAt,
                   access |-> IF res = "Success"
                              THEN IssueToken(sessions[f].account, f, now)
                              ELSE 0]
           /\ IF res = "Success"
              THEN /\ nextRaw <= MaxRaw
                   /\ sessions' = [sessions EXCEPT ![f] =
                                      Advanced(@, Hash(nextRaw))]
                   /\ nextRaw' = nextRaw + 1
                   /\ succeeded' = succeeded \cup {raw}
                   /\ UNCHANGED reused
              ELSE IF res = "ReuseDetected"
              THEN /\ sessions' = [sessions EXCEPT ![f] =
                                      MarkedRevoked(@, "reuse")]
                   /\ reused' = reused \cup {f}
                   /\ UNCHANGED <<nextRaw, succeeded>>
              ELSE UNCHANGED <<sessions, nextRaw, succeeded, reused>>
    /\ UNCHANGED <<now, minted, verified>>
    /\ UNCHANGED otherThanIssuer

\* revoke(sessionFamilyId), also what logout calls; idempotent
Revoke(f) ==
    /\ sessions[f].exists
    /\ sessions' = [sessions EXCEPT ![f] = MarkedRevoked(@, "revoked")]
    /\ UNCHANGED <<now, nextRaw, calls, lastRot, succeeded, reused, minted,
                   verified>>
    /\ UNCHANGED otherThanIssuer

\* expiry sweep: every expired family becomes revoked
ExpirySweep ==
    /\ \E f \in Families :
          sessions[f].exists /\ ~sessions[f].revoked /\ sessions[f].expiresAt <= now
    /\ sessions' = [f \in Families |->
                      IF sessions[f].exists /\ sessions[f].expiresAt <= now
                      THEN MarkedRevoked(sessions[f], "expired")
                      ELSE sessions[f]]
    /\ UNCHANGED <<now, nextRaw, calls, lastRot, succeeded, reused, minted,
                   verified>>
    /\ UNCHANGED otherThanIssuer

\* a token whose exp was extended without re-signing
Tampered(tok) == [tok EXCEPT !.exp = @ + 1]

\* verify(accessToken): a pure computation.  The answer of the first call
\* is remembered, with the time of the call and whether the token's family
\* was revoked then; later calls change nothing.
VerifyCall(tok) ==
    /\ IF verified = {}
       THEN verified' =
               {[tok |-> tok, at |-> now, res |-> Verify(tok, now, sessions),
                 revoked |-> sessions[tok.sid].revoked]}
       ELSE UNCHANGED verified
    /\ UNCHANGED <<sessions, now, nextRaw, calls, lastRot, succeeded, reused,
                   minted>>
    /\ UNCHANGED otherThanIssuer

Tick ==
    /\ now < MaxTime
    /\ now' = now + 1
    /\ UNCHANGED <<sessions, nextRaw, calls, lastRot, succeeded, reused,
                   minted, verified>>
    /\ UNCHANGED otherThanIssuer

\* the rotation side of the Token Issuer
NextIssuer ==
    \/ \E a \in Accounts : StartSession(a)
    \/ \E raw \in 0 .. (nextRaw - 1) : Rotate(raw)
    \/ \E f \in Families : Revoke(f)
    \/ ExpirySweep
    \/ Tick

\* the access-token side of the Token Issuer
NextVerify ==
    \/ \E a \in Accounts : StartSession(a)
    \/ \E f \in Families :
          sessions[f].exists /\ IssueAccess(sessions[f].account, f)
    \/ \E f \in Families : Revoke(f)
    \/ ExpirySweep
    \/ \E tok \in minted : VerifyCall(tok)
    \/ \E tok \in minted : VerifyCall(Tampered(tok))
    \/ Tick

(* --------------------------- OAuth Exchange ---------------------------- *)
Flows == 1 .. NumFlow
StateVals == 1 .. MaxState
Subjects == 1 .. NumSubj
AccountIds == 1 .. MaxAcct

NoAccount == [exists |-> FALSE, password |-> FALSE, providers |-> {}, email |-> 0]

IdleFlow ==
    [pc |-> "idle", found |-> FALSE, unexpired |-> FALSE,
     providerCalls |-> 0, sub |-> 0, account |-> 0,
     session |-> FALSE, result |-> "none"]

StateValidIgnoringExpiry(store, s, t) ==
    /\ s \in DOMAIN store
    /\ store[s] # 0

\* validation (1): the state value exists, is unexpired by the server's
\* clock and matches an issued value exactly
StateValid(store, s, t) ==
    /\ s \in DOMAIN store
    /\ store[s] # 0
    /\ t < store[s]

\* the verified e-mail address the provider reports for a subject
EmailOf(sub) == sub

\* account resolution (3): linked subject, else matching e-mail, else new
LinkedTo(accts, sub) == {a \in AccountIds : accts[a].exists /\ sub \in accts[a].providers}
WithEmail(accts, e) == {a \in AccountIds : accts[a].exists /\ accts[a].email = e}
Unused(accts) == {a \in AccountIds : ~accts[a].exists}

Resolve(accts, sub, e) ==
    IF LinkedTo(accts, sub) # {} THEN CHOOSE a \in LinkedTo(accts, sub) : TRUE
    ELSE IF WithEmail(accts, e) # {} THEN CHOOSE a \in WithEmail(accts, e) : TRUE
    ELSE CHOOSE a \in Unused(accts) : \A b \in Unused(accts) : a <= b

InitOAuth ==
    /\ issuedStates = [s \in StateVals |-> 0]
    /\ nextState = 1
    /\ flows = [fl \in Flows |-> IdleFlow]
    /\ accounts = [a \in AccountIds |-> NoAccount]

\* GET /auth/{provider}/login: generate a state value, store it with a TTL
OAuthLogin ==
    /\ nextState <= MaxState
    /\ issuedStates' = [issuedStates EXCEPT ![nextState] = now + StateTTL]
    /\ nextState' = nextState + 1
    /\ UNCHANGED <<flows, accounts, now>>
    /\ UNCHANGED otherThanOAuth

\* GET /auth/{provider}/callback?code&state: validation (1); a valid state
\* value is consumed (single use)
Callback(fl, s) ==
    /\ flows[fl].pc = "idle"
    /\ \A g \in Flows : g < fl => flows[g].pc # "idle"
    /\ LET ok == StateValid(issuedStates, s, now)
           known == s \in StateVals /\ issuedStates[s] # 0
       IN  /\ flows' = [flows EXCEPT ![fl] =
                  [@ EXCEPT !.found = known,
                            !.unexpired = known /\ now < issuedStates[s],
                            !.pc = IF ok THEN "callback_received" ELSE "failed",
                            !.result = IF ok THEN "none" ELSE "CsrfStateInvalid"]]
           /\ issuedStates' = IF ok THEN [issuedStates EXCEPT ![s] = 0]
                              ELSE issuedStates
    /\ UNCHANGED <<nextState, accounts, now>>
    /\ UNCHANGED otherThanOAuth

\* validation (2): the code exchange, one network call to the provider
Exchange(fl, ok, sub) ==
    /\ flows[fl].pc = "callback_received"
    /\ flows' = [flows EXCEPT ![fl] =
          IF ok
          THEN [@ EXCEPT !.pc = "exchanged", !.providerCalls = @ + 1,
                         !.sub = sub]
          ELSE [@ EXCEPT !.pc = "failed", !.providerCalls = @ + 1,
                         !.result = "ProviderExchangeFailed"]]
    /\ UNCHANGED <<issuedStates, nextState, accounts, now>>
    /\ UNCHANGED otherThanOAuth

\* validation (3): resolve the local account and link the provider identity
Link(fl) ==
    /\ flows[fl].pc = "exchanged"
    /\ \/ LinkedTo(accounts, flows[fl].sub) # {}
       \/ WithEmail(accounts, EmailOf(flows[fl].sub)) # {}
       \/ Unused(accounts) # {}
    /\ LET a == Resolve(accounts, flows[fl].sub, EmailOf(flows[fl].sub))
       IN  /\ accounts' = [accounts EXCEPT ![a] =
                  IF @.exists
                  THEN [@ EXCEPT !.providers = @ \cup {flows[fl].sub}]
                  ELSE [exists |-> TRUE, password |-> FALSE,
                        providers |-> {flows[fl].sub},
                        email |-> EmailOf(flows[fl].sub)]]
           /\ flows' = [flows EXCEPT ![fl] =
                  [@ EXCEPT !.pc = "linked", !.account = a]]
    /\ UNCHANGED <<issuedStates, nextState, now>>
    /\ UNCHANGED otherThanOAuth

\* the Token Issuer starts the session as in the password-login path
StartOAuthSession(fl) ==
    /\ flows[fl].pc = "linked"
    /\ flows' = [flows EXCEPT ![fl] =
          [@ EXCEPT !.pc = "session_started", !.session = TRUE,
                    !.result = "ok"]]
    /\ UNCHANGED <<issuedStates, nextState, accounts, now>>
    /\ UNCHANGED otherThanOAuth

\* POST /auth/signup: an account with a password
Signup(e) ==
    /\ WithEmail(accounts, e) = {}
    /\ Unused(accounts) # {}
    /\ LET a == CHOOSE x \in Unused(accounts) : \A b \in Unused(accounts) : x <= b
       IN  accounts' = [accounts EXCEPT ![a] =
              [exists |-> TRUE, password |-> TRUE, providers |-> {},
               email |-> e]]
    /\ UNCHANGED <<issuedStates, nextState, flows, now>>
    /\ UNCHANGED otherThanOAuth

NextOAuth ==
    \/ OAuthLogin
    \/ \E fl \in Flows, s \in 0 .. MaxState : Callback(fl, s)
    \/ \E fl \in Flows, ok \in BOOLEAN, sub \in Subjects : Exchange(fl, ok, sub)
    \/ \E fl \in Flows : Link(fl)
    \/ \E fl \in Flows : StartOAuthSession(fl)
    \/ \E sub \in Subjects : Signup(EmailOf(sub))
    \/ Tick

(* ------------- the API client against the rotating server -------------- *)
NoWire == [raw |-> 0, res |-> "none"]

InitSess ==
    /\ jar = 0
    /\ wire = [r \in Req |-> NoWire]

\* password login: the Token Issuer starts a family, the response sets the
\* refresh cookie and carries the access token that authApi.login stores
SessLogin ==
    /\ \A f \in Families : ~sessions[f].exists
    /\ nextRaw <= MaxRaw
    /\ nextTok <= MaxTok
    /\ sessions' = [sessions EXCEPT ![1] =
          [exists |-> TRUE, version |-> 0, hash |-> Hash(nextRaw),
           old |-> {}, account |-> 1, issuedAt |-> now,
           expiresAt |-> now + SessionTTL, revoked |-> FALSE,
           reason |-> "none"]]
    /\ jar' = nextRaw
    /\ nextRaw' = nextRaw + 1
    /\ accessToken' = nextTok
    /\ nextTok' = nextTok + 1
    /\ UNCHANGED <<location, req, refreshCalls, terminated, succeeded, reused,
                   wire>>
    /\ UNCHANGED otherThanSess

\* a logged-in page issues a request through axiosInstance
SessSend(r) ==
    /\ jar # 0
    /\ req[r].pc = "idle"
    /\ req' = [req EXCEPT ![r] =
                 [@ EXCEPT !.pc = "sent", !.kind = "api",
                           !.skip = SkipAuthRefresh("api"),
                           !.auth = AttachToken(Null, accessToken),
                           !.sends = 1]]
    /\ UNCHANGED <<accessToken, location, refreshCalls, nextTok, terminated,
                   sessions, nextRaw, succeeded, reused, sessVars>>
    /\ UNCHANGED otherThanSess

\* 2xx response: passed through
SessRespondOk(r) ==
    /\ req[r].pc = "sent"
    /\ req' = [req EXCEPT ![r] = [@ EXCEPT !.pc = "done", !.outcome = "ok"]]
    /\ UNCHANGED <<accessToken, location, refreshCalls, nextTok, terminated,
                   sessions, nextRaw, succeeded, reused, sessVars>>
    /\ UNCHANGED otherThanSess

\* 401 (the access token has expired): the interceptor up to its await; the
\* refresh call leaves with the cookie the jar holds now
SessRespondErr(r) ==
    /\ req[r].pc = "sent"
    /\ IF ShouldRefresh(Unauthorized, req[r])
       THEN /\ req' = [req EXCEPT ![r] =
                        [@ EXCEPT !.pc = "refreshing", !.retry = TRUE,
                                  !.refreshes = @ + 1,
                                  !.refreshId = refreshCalls + 1]]
            /\ refreshCalls' = refreshCalls + 1
            /\ wire' = [wire EXCEPT ![r] = [raw |-> jar, res |-> "none"]]
       ELSE /\ req' = [req EXCEPT ![r] =
                        [@ EXCEPT !.pc = "done", !.outcome = "err401"]]
            /\ UNCHANGED <<refreshCalls, wire>>
    /\ UNCHANGED <<accessToken, location, nextTok, terminated, sessions,
                   nextRaw, succeeded, reused, jar>>
    /\ UNCHANGED otherThanSess

\* POST /auth/refresh is served by rotate and answered: on Success the
\* response sets the new cookie and the interceptor stores the token and
\* retries; otherwise the interceptor clears the token, redirects, rejects
SessRefreshServed(r) ==
    /\ req[r].pc = "refreshing"
    /\ LET h == Hash(wire[r].raw)
           f == FamilyOf(sessions, h)
           res == RotateOutcome(sessions, h, now)
       IN  /\ wire' = [wire EXCEPT ![r] = [@ EXCEPT !.res = res]]
           /\ IF res = "Success"
              THEN /\ nextRaw <= MaxRaw
                   /\ nextTok <= MaxTok
                   /\ sessions' = [sessions EXCEPT ![f] =
                                      Advanced(@, Hash(nextRaw))]
                   /\ succeeded' = succeeded \cup {wire[r].raw}
                   /\ jar' = nextRaw
                   /\ nextRaw' = nextRaw + 1
                   /\ accessToken' = nextTok
                   /\ nextTok' = nextTok + 1
                   /\ req' = [req EXCEPT ![r] =
                        [@ EXCEPT !.pc = "sent", !.newTok = nextTok,
                                  !.auth = AttachToken(nextTok, nextTok),
                                  !.retryAuth = AttachToken(nextTok, nextTok),
                                  !.sends = @ + 1]]
                   /\ UNCHANGED <<location, terminated, reused>>
              ELSE /\ IF res = "ReuseDetected"
                      THEN /\ sessions' = [sessions EXCEPT ![f] =
                                              MarkedRevoked(@, "reuse")]
                           /\ reused' = reused \cup {f}
                      ELSE UNCHANGED <<sessions, reused>>
                   /\ accessToken' = Null
                   /\ location' = IF location = "app" THEN "auth" ELSE location
                   /\ terminated' = TRUE
                   /\ req' = [req EXCEPT ![r] =
                        [@ EXCEPT !.pc = "done", !.outcome = "refreshErr"]]
                   /\ UNCHANGED <<jar, nextRaw, nextTok, succeeded>>
    /\ UNCHANGED refreshCalls
    /\ UNCHANGED otherThanSess

NextSess ==
    \/ SessLogin
    \/ \E r \in Req : SessSend(r)
    \/ \E r \in Req : SessRespondOk(r)
    \/ \E r \in Req : SessRespondErr(r)
    \/ \E r \in Req : SessRefreshServed(r)

(* ----------------------------- PetContext ----------------------------- *)
Users == 1 .. NumUsers
PetIds == 1 .. (NumUsers * MaxPets)

\* the account a pet belongs to
Owner(p) == ((p - 1) \div MaxPets) + 1

\* what GET /api/v1/pets can answer for user u: a list of u's pets
ListsOf(u) ==
    {l \in UNION {[1 .. n -> {p \in PetIds : Owner(p) = u}] : n \in 0 .. MaxPets} :
        \A i, j \in DOMAIN l : l[i] = l[j] => i = j}

\* currentPet: pets.find(p => p.id === currentPetId) ?? null
CurrentPet(ps, id) ==
    IF \E i \in DOMAIN ps : ps[i] = id THEN id ELSE Null

\* the loadPets effect, run when isAuthenticated or currentPetId changed
LoadEffect(u, id, changed, pending) ==
    IF changed /\ IsAuthenticated(u)
    THEN pending \cup {[for |-> u, cur |-> id]}
    ELSE pending

InitPet ==
    /\ pets = <<>>
    /\ currentPetId = Null
    /\ loads = {}

\* AuthProvider sets user: isAuthenticated becomes true
PetLogin(u) ==
    /\ ~IsAuthenticated(user)
    /\ user' = u
    /\ loads' = LoadEffect(u, currentPetId, TRUE, loads)
    /\ Cardinality(loads') <= MaxLoads
    /\ UNCHANGED <<pets, currentPetId>>
    /\ UNCHANGED otherThanPet

\* AuthProvider.logout: isAuthenticated becomes false, the effect returns
PetLogout ==
    /\ IsAuthenticated(user)
    /\ user' = Null
    /\ loads' = LoadEffect(Null, currentPetId, TRUE, loads)
    /\ UNCHANGED <<pets, currentPetId>>
    /\ UNCHANGED otherThanPet

\* petApi.getAll() resolved with data: setPets, auto-select, re-run effect
PetsLoaded(l, data) ==
    /\ l \in loads
    /\ data \in ListsOf(l.for)
    /\ pets' = data
    /\ currentPetId' = IF Len(data) > 0 /\ l.cur = Null THEN data[1]
                       ELSE currentPetId
    /\ loads' = LoadEffect(user, currentPetId', currentPetId' # currentPetId,
                           loads \ {l})
    /\ UNCHANGED user
    /\ UNCHANGED otherThanPet

\* petApi.getAll() rejected: setError only
PetsFailed(l) ==
    /\ l \in loads
    /\ loads' = loads \ {l}
    /\ UNCHANGED <<user, pets, currentPetId>>
    /\ UNCHANGED otherThanPet

NextPet ==
    \/ \E u \in Users : PetLogin(u)
    \/ PetLogout
    \/ \E l \in loads : \E data \in ListsOf(l.for) : PetsLoaded(l, data)
    \/ \E l \in loads : PetsFailed(l)

(* ------------------------- the PhaserGame component -------------------- *)
Comps == 1 .. MaxMounts

\* initGame up to its first await: the container must exist and have a width
InitGameStart(container) == IF container THEN "import" ELSE "retry"

\* the init effect: nothing when gameRef.current is set, else initGame()
InitEffect(ref, container) ==
    IF ref # Null THEN "none" ELSE InitGameStart(container)

\* the handler effect: nothing when gameRef.current is null, else off and on
HandlerEffect(ref, hs) ==
    IF ref = Null THEN hs ELSE [hs EXCEPT ![ref] = 1]

InitGame ==
    /\ mounted = Null
    /\ mounts = 0
    /\ gameRef = [c \in Comps |-> Null]
    /\ initGame = [c \in Comps |-> "none"]
    /\ retries = [c \in Comps |-> 0]
    /\ games = {}
    /\ handlers = [c \in Comps |-> 0]
    /\ emitted = 0
    /\ handled = 0

\* a PhaserGame mounts: its effects run in order, with a fresh ref
GameMount(ready) ==
    /\ mounted = Null
    /\ mounts < MaxMounts
    /\ mounts' = mounts + 1
    /\ mounted' = mounts'
    /\ initGame' = [initGame EXCEPT
                      ![mounts'] = InitEffect(gameRef[mounts'], ready)]
    /\ handlers' = HandlerEffect(gameRef[mounts'], handlers)
    /\ UNCHANGED <<gameRef, retries, games, emitted, handled>>
    /\ UNCHANGED otherThanGame

\* the component unmounts: the init effect's cleanup runs
GameUnmount ==
    /\ mounted # Null
    /\ mounted' = Null
    /\ IF gameRef[mounted] # Null
       THEN /\ games' = games \ {gameRef[mounted]}
            /\ handlers' = [handlers EXCEPT ![gameRef[mounted]] = 0]
            /\ gameRef' = [gameRef EXCEPT ![mounted] = Null]
       ELSE UNCHANGED <<games, handlers, gameRef>>
    /\ UNCHANGED <<mounts, initGame, retries, emitted, handled>>
    /\ UNCHANGED otherThanGame

\* setTimeout(initGame, 100) fires: the container is looked up again, by id
InitGameRetry(c, ready) ==
    /\ initGame[c] = "retry"
    /\ retries[c] < MaxRetries
    /\ retries' = [retries EXCEPT ![c] = @ + 1]
    /\ initGame' = [initGame EXCEPT
                      ![c] = InitGameStart(mounted # Null /\ ready)]
    /\ UNCHANGED <<mounted, mounts, gameRef, games, handlers, emitted,
                   handled>>
    /\ UNCHANGED otherThanGame

\* import('phaser') resolved
InitGameImported(c) ==
    /\ initGame[c] = "import"
    /\ initGame' = [initGame EXCEPT ![c] = "config"]
    /\ UNCHANGED <<mounted, mounts, gameRef, retries, games, handlers,
                   emitted, handled>>
    /\ UNCHANGED otherThanGame

\* createGameConfig() resolved: gameRef.current = new Phaser.Game(config)
InitGameCreate(c) ==
    /\ initGame[c] = "config"
    /\ initGame' = [initGame EXCEPT ![c] = "done"]
    /\ games' = games \cup {c}
    /\ gameRef' = [gameRef EXCEPT ![c] = c]
    /\ UNCHANGED <<mounted, mounts, retries, handlers, emitted, handled>>
    /\ UNCHANGED otherThanGame

\* MainScene.onPetClick in a live game: every registered copy is called
OnPetClick(g) ==
    /\ g \in games
    /\ emitted < MaxEmits
    /\ emitted' = emitted + 1
    /\ handled' = handled + handlers[g]
    /\ UNCHANGED <<mounted, mounts, gameRef, initGame, retries, games,
                   handlers>>
    /\ UNCHANGED otherThanGame

NextGame ==
    \/ \E ready \in BOOLEAN : GameMount(ready)
    \/ GameUnmount
    \/ \E c \in Comps : \E ready \in BOOLEAN : InitGameRetry(c, ready)
    \/ \E c \in Comps : InitGameImported(c)
    \/ \E c \in Comps : InitGameCreate(c)
    \/ \E g \in Comps : OnPetClick(g)

Init ==
    /\ InitClient /\ InitIssuer /\ InitOAuth /\ InitAuth /\ InitSess
    /\ InitPet /\ InitGame

Spec == Init /\ [][NextClient]_vars

InitI ==
    /\ InitClient /\ location = "none"
    /\ InitIssuer /\ InitOAuth /\ InitAuth /\ InitSess /\ InitPet
    /\ InitGame

SpecIssuer == InitI /\ [][NextIssuer]_vars

SpecVerify == InitI /\ [][NextVerify]_vars

SpecOAuth == InitI /\ [][NextOAuth]_vars

\* a browser on a protected page or on /auth, with or without a refresh
\* cookie of an earlier session
InitA ==
    /\ InitClient /\ InitIssuer /\ InitOAuth /\ InitSess /\ InitPet
    /\ InitGame
    /\ location \in {"app", "auth"}
    /\ user = Null
    /\ isLoading = TRUE
    /\ tasks = [id \in TaskIds |-> IdleTask]
    /\ view = "unmounted"
    /\ pushedAuth = FALSE
    /\ cookie \in BOOLEAN
    /\ loggedIn = FALSE
    /\ loggedOut = FALSE

SpecAuth == InitA /\ [][NextAuth]_vars

SpecSess == Init /\ [][NextSess]_vars

SpecPet == InitI /\ [][NextPet]_vars

SpecGame == InitI /\ [][NextGame]_vars

\* every request is answered, and the mount effect runs
SpecAuthLive ==
    /\ InitA
    /\ [][NextAuth]_vars
    /\ WF_vars(Mount)
    /\ WF_vars(\E s \in {Unauthorized, Unprocessable} :
                  \/ TaskOk("restore")
                  \/ TaskErr("restore", s)
                  \/ TaskRefreshOk("restore")
                  \/ TaskRefreshFail("restore"))

(* ------------------- claims about the API client ----------------------- *)

\* C1: requests that wait for a token refresh at the same time all wait for
\* one and the same POST /auth/refresh call (single-flight), and requests
\* that waited together are retried with the same new token.
C1_SingleFlight ==
    \A r1, r2 \in Req :
        /\ (req[r1].pc = "refreshing" /\ req[r2].pc = "refreshing")
              => req[r1].refreshId = req[r2].refreshId
        /\ (req[r1].refreshId # 0 /\ req[r1].refreshId = req[r2].refreshId
            /\ req[r1].newTok # Null /\ req[r2].newTok # Null)
              => req[r1].newTok = req[r2].newTok

\* C2: a request starts at most one refresh and is sent at most twice; after
\* a successful refresh it is re-sent exactly once carrying the token that
\* refresh returned, and whatever the re-sent request answers is the
\* request's final outcome.
C2_RetryOnce ==
    \A r \in Req :
        /\ req[r].sends <= 2
        /\ req[r].refreshes <= 1
        /\ req[r].newTok # Null =>
              /\ req[r].sends = 2
              /\ req[r].retryAuth = req[r].newTok
              /\ req[r].pc \in {"sent", "done"}
        /\ (req[r].pc = "done" /\ req[r].sends = 2) =>
              req[r].outcome \in {"ok", "err401", "err422"}

\* a request was refreshed, re-sent with the new token, got 401 again and
\* surfaced it
C2_Witness ==
    \E r \in Req :
        /\ req[r].pc = "done"
        /\ req[r].sends = 2
        /\ req[r].newTok # Null
        /\ req[r].retryAuth = req[r].newTok
        /\ req[r].outcome = "err401"

\* C3: once a refresh failure has been handled the request that waited for
\* it is rejected with that failure and the in-memory access token is null,
\* and it stays null until somebody re-authenticates.
C3_RefreshFailureTerminatesSession ==
    /\ terminated => accessToken = Null
    /\ \A r \in Req :
          (req[r].pc = "done" /\ req[r].refreshes = 1 /\ req[r].newTok = Null)
              => req[r].outcome = "refreshErr"

(* ------------------- claims about the Token Issuer --------------------- *)

\* the step is a rotate call
RotateStep == calls' = calls + 1

\* the step is a successful rotate on family f
RotatedNow(f) ==
    RotateStep /\ lastRot'.res = "Success" /\ lastRot'.fam = f

\* C4: rotation is single-use.  A rotate call presenting the valid current
\* token succeeds; a rotate call presenting a token that an earlier call was
\* answered Success for is answered ReuseDetected (never a second Success);
\* and a token that was answered Success or ReuseDetected can not be rotated
\* in any later state.
C4_RotationSingleUse ==
    /\ [][RotateStep =>
             /\ lastRot'.valid => lastRot'.res = "Success"
             /\ lastRot'.tok \in succeeded => lastRot'.res = "ReuseDetected"]_vars
    /\ [](\A raw \in succeeded :
             RotateOutcome(sessions, Hash(raw), now) # "Success")
    /\ [](lastRot.res \in {"Success", "ReuseDetected"} =>
             RotateOutcome(sessions, Hash(lastRot.tok), now) # "Success")

\* a token that was rotated successfully was presented again and answered
\* ReuseDetected
C4_Witness ==
    /\ lastRot.tok \in succeeded
    /\ lastRot.res = "ReuseDetected"
    /\ calls = 2

\* C5: after rotate answered ReuseDetected for a family, no later rotate on
\* that family succeeds, and the family's latest token cannot be rotated.
C5_ReuseRevokesFamily ==
    /\ [][\A f \in reused : ~RotatedNow(f)]_vars
    /\ [](\A f \in reused :
             /\ sessions[f].revoked
             /\ RotateOutcome(sessions, sessions[f].hash, now) # "Success")

\* reuse was detected on an unexpired family and the family's latest token,
\* presented afterwards, was rejected
C5_Witness ==
    /\ lastRot.fam \in reused
    /\ Hash(lastRot.tok) = sessions[lastRot.fam].hash
    /\ sessions[lastRot.fam].reason = "reuse"
    /\ now < sessions[lastRot.fam].expiresAt
    /\ lastRot.res = "SessionRevoked"

\* C6: REVOKED is terminal.  No step makes a revoked family unrevoked,
\* removes it, or advances its version or hash (no rotate succeeds on it).
C6_RevokedIsTerminal ==
    [][\A f \in Families :
          (sessions[f].exists /\ sessions[f].revoked) =>
              /\ sessions'[f].exists
              /\ sessions'[f].revoked
              /\ sessions'[f].version = sessions[f].version
              /\ sessions'[f].hash = sessions[f].hash
              /\ ~RotatedNow(f)]_vars

\* a family revoked by revoke/logout or the expiry sweep was presented its
\* current token and rotate refused, while another family exists
C6_Witness ==
    /\ lastRot.res = "SessionRevoked"
    /\ sessions[lastRot.fam].reason \in {"revoked", "expired"}
    /\ sessions[lastRot.fam].revoked
    /\ \E g \in Families : g # lastRot.fam /\ sessions[g].exists

\* C7: a family is created with version 0; its version never decreases and
\* grows by exactly 1 in a step exactly when that step is a successful
\* rotate on the family, which also replaces the stored hash by one that is
\* not the hash of the token just presented.
C7_VersionMonotonic ==
    [][\A f \in Families :
          /\ (~sessions[f].exists /\ sessions'[f].exists) =>
                sessions'[f].version = 0
          /\ sessions[f].exists =>
                /\ sessions'[f].exists
                /\ sessions'[f].version \in
                      {sessions[f].version, sessions[f].version + 1}
                /\ (sessions'[f].version = sessions[f].version + 1)
                      <=> RotatedNow(f)
                /\ RotatedNow(f) =>
                      /\ sessions'[f].hash # sessions[f].hash
                      /\ sessions'[f].hash # Hash(lastRot'.tok)]_vars

\* a family was rotated twice
C7_Witness ==
    \E f \in Families :
        /\ sessions[f].version = 2
        /\ lastRot.fam = f
        /\ lastRot.res = "Success"
        /\ Cardinality(succeeded) = 2

\* C8: verification is stateless.  In every state before a token's exp,
\* verify answers what it answered at the first call, whether or not the
\* token's session family has been revoked in between; a well-signed token
\* is accepted until exp and refused from exp on.
C8_VerifyStateless ==
    /\ \A v \in verified :
          (v.at < v.tok.exp /\ now < v.tok.exp) =>
              Verify(v.tok, now, sessions) = v.res
    /\ \A tok \in minted :
          Verify(tok, now, sessions) =
              IF now < tok.exp THEN "Claims" ELSE "TokenExpired"

\* a token was accepted by verify, its family was revoked afterwards, time
\* has passed and the token has not expired yet
C8_Witness ==
    \E v \in verified :
        /\ v.tok \in minted
        /\ v.res = "Claims"
        /\ ~v.revoked
        /\ sessions[v.tok.sid].revoked
        /\ now > v.at
        /\ now < v.tok.exp

(* ------------------- claims about the OAuth Exchange ------------------- *)

\* C9: a callback reaches the provider only after its state value was found
\* in the server's store, unexpired by the server's clock at the moment of
\* the check; a callback whose state value fails this ends in
\* CsrfStateInvalid with no provider call, no account and no session.
C9_StateCheckedBeforeProvider ==
    \A fl \in Flows :
        LET good == flows[fl].found /\ flows[fl].unexpired
        IN  /\ flows[fl].providerCalls > 0 => good
            /\ flows[fl].pc \in {"callback_received", "exchanged", "linked",
                                 "session_started"} => good
            /\ (flows[fl].pc # "idle" /\ ~good) =>
                  /\ flows[fl].result = "CsrfStateInvalid"
                  /\ flows[fl].providerCalls = 0
                  /\ flows[fl].account = 0
                  /\ ~flows[fl].session
            /\ flows[fl].result = "CsrfStateInvalid" =>
                  /\ flows[fl].pc = "failed"
                  /\ flows[fl].providerCalls = 0
                  /\ flows[fl].account = 0
                  /\ ~flows[fl].session

\* one callback presented an issued but expired state value and was
\* refused, another went through the exchange to a started session
C9_Witness ==
    \E f1, f2 \in Flows :
        /\ flows[f1].result = "CsrfStateInvalid"
        /\ flows[f1].found
        /\ ~flows[f1].unexpired
        /\ flows[f2].pc = "session_started"
        /\ flows[f2].providerCalls = 1

(* ------------- claims about AuthContext and the pages ------------------ *)

\* C11: when AuthContext.logout() returns, the in-memory access token is
\* null and user is null (isAuthenticated false), whether the server's
\* logout call succeeded or failed.
C11_LogoutClears ==
    LET t == tasks["logout"]
    IN  t.pc = "returned" =>
            /\ t.tokenAt = Null
            /\ t.userAt = Null
            /\ ~IsAuthenticated(t.userAt)

\* logout returned although the server's logout call failed, for a user who
\* was logged in with a token in memory
C11_Witness ==
    /\ tasks["logout"].pc = "returned"
    /\ tasks["logout"].error = "endpoint422"
    /\ tasks["login"].pc = "resolved"
    /\ tasks["login"].tokenAt # Null
    /\ tasks["login"].userAt # Null

\* C12: whenever login resolves without throwing, user is non-null and the
\* access token is set at that moment; an attempt that leaves the user not
\* logged in rejects.
C12_LoginResolvesLoggedIn ==
    LET t == tasks["login"]
    IN  /\ t.pc = "resolved" =>
              /\ IsAuthenticated(t.userAt)
              /\ t.tokenAt # Null
        /\ (t.pc \in {"resolved", "rejected"} /\ ~IsAuthenticated(t.userAt)) =>
              t.pc = "rejected"

\* C13: a protected page shows its content only when isLoading is false
\* and user is non-null; whenever a mounted protected page sees isLoading
\* false and no user, it renders nothing and has pushed /auth.
C13_ProtectedContentGuarded ==
    /\ view = "content" => (~isLoading /\ user # Null)
    /\ (view # "unmounted" /\ ~isLoading /\ user = Null) =>
          /\ view = "nothing"
          /\ pushedAuth
          /\ location = "auth"

\* the session restore failed under a mounted protected page, which
\* rendered nothing and redirected
C13_Witness ==
    /\ view = "nothing"
    /\ pushedAuth
    /\ ~isLoading
    /\ user = Null
    /\ tasks["restore"].pc = "done"
    /\ tasks["restore"].rt = "failed"

\* C14: AuthProvider starts with isLoading true; whatever the refresh call
\* and the user fetch answer, isLoading eventually becomes false, and in the
\* step that makes it false user is non-null exactly when the refresh (if
\* one was needed) and the user fetch both succeeded.
C14_RestoreCompletes ==
    /\ [](tasks["restore"].pc # "done" => isLoading)
    /\ <>(~isLoading)
    /\ [][(isLoading /\ ~isLoading') =>
             (IsAuthenticated(user') <=>
                 (tasks'["restore"].rt # "failed" /\ tasks'["restore"].me = "ok"))]_vars

\* the restore finished logged in after a refresh and a user fetch that the
\* interceptor had to retry
C14_Witness ==
    /\ ~isLoading
    /\ IsAuthenticated(user)
    /\ tasks["restore"].pc = "done"
    /\ tasks["restore"].rt = "ok"
    /\ tasks["restore"].me = "ok"
    /\ tasks["restore"].retry

\* C15: when the callback URL carries no access_token the page ends in the
\* 'error' status, the in-memory token is what it was, refreshUser was not
\* called and no redirect to /dashboard was scheduled.
C15_CallbackNeedsToken ==
    LET t == tasks["callback"]
    IN  t.via = "no-token" =>
            /\ t.pc = "error"
            /\ t.tokenAt = t.tokenBefore
            /\ ~t.called
            /\ ~t.scheduled

\* a callback without a token ended in error and the application went on
\* to restore the session
C15_Witness ==
    /\ tasks["callback"].via = "no-token"
    /\ tasks["callback"].pc = "error"
    /\ tasks["restore"].pc = "done"

\* C16: a failure of a refresh request never starts another refresh.  A
\* request made by authApi.refreshToken is sent once and never enters the
\* interceptor's refresh branch; a request whose interceptor refresh failed
\* is over after that one refresh call; so every refresh call belongs to a
\* different request.
C16_RefreshNotReentered ==
    /\ \A r \in Req :
          /\ (req[r].kind = "refreshToken" /\ req[r].pc # "idle") =>
                (req[r].refreshes = 0 /\ req[r].sends = 1
                 /\ req[r].pc \in {"sent", "done"})
          /\ req[r].outcome = "refreshErr" =>
                (req[r].pc = "done" /\ req[r].refreshes = 1 /\ req[r].sends = 1)
    /\ refreshCalls = Cardinality({r \in Req : req[r].refreshes = 1})

\* authApi.refreshToken was answered 401 and gave up, and another request's
\* interceptor refresh failed
C16_Witness ==
    \E r1, r2 \in Req :
        /\ req[r1].kind = "refreshToken"
        /\ req[r1].outcome = "err401"
        /\ req[r2].outcome = "refreshErr"
        /\ refreshCalls = 1

\* C17: no spurious logout.  While the session family is valid (current
\* token unrevoked and unexpired when the requests got their 401), no
\* refresh call of the client is answered ReuseDetected, the access token is
\* not cleared and the client is not sent to /auth.
C17_NoSpuriousLogout ==
    jar # 0 =>
        /\ \A r \in Req : wire[r].res # "ReuseDetected"
        /\ \A r \in Req : req[r].outcome # "refreshErr"
        /\ accessToken # Null
        /\ ~terminated

\* C18: once logout has returned, the in-memory access token stays null
\* until a login, signup, OAuth callback or session restore is started.
C18_NoTokenAfterLogout ==
    loggedOut => accessToken = Null

\* C19: while a login or signup request is being handled no refresh call is
\* made for it; when it is rejected the error is the endpoint's own, and
\* after a 401 the token is what it was before the attempt.
C19_LoginRejectionNoRefresh ==
    LET t == tasks["login"]
    IN  /\ t.pc = "post" => (t.rq # "refreshing" /\ ~t.retry)
        /\ t.pc = "rejected" =>
              /\ t.error \in {"endpoint401", "endpoint422"}
              /\ ~t.retry
              /\ t.error = "endpoint401" => t.tokenAt = t.tokenBefore

\* C20: once login has set user, user stays non-null until logout or until
\* a request made after the login fails.
C20_LoginSurvivesRestore ==
    loggedIn => IsAuthenticated(user)

\* C21: in every state, isAuthenticated (user non-null) implies that the
\* in-memory access token is non-null.
C21_AuthenticatedHasToken ==
    IsAuthenticated(user) => accessToken # Null

\* C22: the callback page reaches 'success' and schedules the redirect to
\* /dashboard only if the user fetch made with the URL's token succeeded
\* and left a user; when that fetch failed the page ends in 'error'.
C22_CallbackSuccessNeedsUser ==
    LET t == tasks["callback"]
    IN  /\ (t.pc = "success" \/ t.scheduled) =>
              (t.me = "ok" /\ IsAuthenticated(t.userAt))
        /\ t.me = "failed" => t.pc = "error"

(* ----------------------- claims about PetContext ----------------------- *)

\* C23: while nobody is authenticated PetContext holds no pets and no
\* current pet; while a user is authenticated and no load is pending, every
\* pet it holds belongs to that user and a non-empty list has a current pet.
C23_NoPetsOfPreviousUser ==
    /\ ~IsAuthenticated(user) =>
          (pets = <<>> /\ CurrentPet(pets, currentPetId) = Null)
    /\ (IsAuthenticated(user) /\ loads = {}) =>
          /\ \A i \in DOMAIN pets : Owner(pets[i]) = user
          /\ pets # <<>> => CurrentPet(pets, currentPetId) # Null

\* C24: the live Phaser.Game instances are never more than the mounted
\* PhaserGame components (none or one), also when a component unmounts or
\* remounts while its initGame call is pending.
C24_GamesWithinMounted ==
    Cardinality(games) <= (IF mounted # Null THEN 1 ELSE 0)

\* C25: every 'gameAction' event emitted by a live game has been delivered
\* to handleGameAction exactly once: one copy of the handler is registered
\* on each live game.
C25_GameActionDeliveredOnce ==
    /\ handled = emitted
    /\ \A g \in games : handlers[g] = 1

====
